---- MODULE Spec2Model ----
(***************************************************************************)
(* LC-3 virtual machine (src/lc3.c): image loader, memory-mapped keyboard, *)
(* fetch/decode/execute loop and trap routines, modelled as a state        *)
(* machine.  Words are uint16_t and keep their width (mod 2^16).  The      *)
(* memory array is held sparsely: a cell that was never stored to reads 0, *)
(* as the zero-initialised global does.                                    *)
(***************************************************************************)
EXTENDS Integers, Sequences, FiniteSets, TLC

(* ------------------------------------------------------------------ *)
(* Bounds of the model                                                 *)
(* ------------------------------------------------------------------ *)
\* most image files named on the command line
MaxArgs == 2
\* most instructions executed by the fetch loop in one run
MaxSteps == 8
\* most keystrokes waiting in the console buffer at a time
MaxPending == 1

(* ------------------------------------------------------------------ *)
(* Program constants                                                   *)
(* ------------------------------------------------------------------ *)
UINT16_MAX == 65535
\* number of elements of the array `memory` (declared memory[UINT16_MAX])
MemSize == UINT16_MAX
\* number of values of a uint16_t
WordRange == UINT16_MAX + 1

R_R0 == 0
R_R1 == 1
R_R7 == 7
R_PC == 8
R_COND == 9
R_COUNT == 10

FL_POS == 1
FL_ZRO == 2
FL_NEG == 4

OP_BR == 0
OP_ADD == 1
OP_LD == 2
OP_ST == 3
OP_JSR == 4
OP_AND == 5
OP_LDR == 6
OP_STR == 7
OP_RTI == 8
OP_NOT == 9
OP_LDI == 10
OP_STI == 11
OP_JMP == 12
OP_RES == 13
OP_LEA == 14
OP_TRAP == 15

MR_KBSR == \hFE00
MR_KBDR == \hFE02

TRAP_GETC == \h20
TRAP_OUT == \h21
TRAP_PUTS == \h22
TRAP_IN == \h23
TRAP_PUTSP == \h24
TRAP_HALT == \h25

PC_START == \h3000

(* ------------------------------------------------------------------ *)
(* C integer operators on non-negative ints                            *)
(* ------------------------------------------------------------------ *)
\* conversion of an int to uint16_t
ToU16(x) == x % WordRange

Shr(x, n) == x \div (2 ^ n)

Shl(x, n) == x * (2 ^ n)

RECURSIVE BitAnd(_, _)
BitAnd(a, b) ==
    IF a = 0 \/ b = 0 THEN 0
    ELSE (a % 2) * (b % 2) + 2 * BitAnd(a \div 2, b \div 2)

RECURSIVE BitOr(_, _)
BitOr(a, b) ==
    IF a = 0 THEN b
    ELSE IF b = 0 THEN a
    ELSE (IF a % 2 = 1 \/ b % 2 = 1 THEN 1 ELSE 0) + 2 * BitOr(a \div 2, b \div 2)

\* ~x of a uint16_t, converted back to uint16_t
BitNot16(x) == UINT16_MAX - x

(* ------------------------------------------------------------------ *)
(* Pure functions of lc3.c                                             *)
(* ------------------------------------------------------------------ *)
\* mutant: the sign is taken from the bit above the field
sign_extend_BitAbove(x, bit_count) ==
    IF BitAnd(Shr(x, bit_count), 1) # 0
    THEN ToU16(BitOr(x, Shl(UINT16_MAX, bit_count)))
    ELSE x

sign_extend(x, bit_count) ==
    IF BitAnd(Shr(x, bit_count - 1), 1) # 0
    THEN ToU16(BitOr(x, Shl(UINT16_MAX, bit_count)))
    ELSE x

swap16(x) == ToU16(BitOr(Shl(x, 8), Shr(x, 8)))

\* mutant: the test for zero is missing
FlagOf_NoZero(v) ==
    IF Shr(v, 15) # 0 THEN FL_NEG
    ELSE FL_POS

\* the flag update_flags stores for a register holding v
FlagOf(v) ==
    IF v = 0 THEN FL_ZRO
    ELSE IF Shr(v, 15) # 0 THEN FL_NEG
    ELSE FL_POS

\* mutant: the new flag is or-ed into the old ones
update_flags_Accumulate(rg, r) == [rg EXCEPT ![R_COND] = BitOr(@, FlagOf(rg[r]))]

update_flags(rg, r) == [rg EXCEPT ![R_COND] = FlagOf(rg[r])]

(* ------------------------------------------------------------------ *)
(* The array `memory` and the word that lies behind it                 *)
(* ------------------------------------------------------------------ *)
\* memory[i] for an index inside the array
Cell(m, i) == IF i \in DOMAIN m THEN m[i] ELSE 0

SetCell(m, i, v) == [a \in (DOMAIN m) \cup {i} |-> IF a = i THEN v ELSE m[a]]

\* memory[i] as the build evaluates it: index MemSize is one element behind
\* the array and reads the adjoining word p
Load(m, p, i) == IF i < MemSize THEN Cell(m, i) ELSE p

\* memory[i] = v: [memory, past] afterwards
Store(m, p, i, v) ==
    IF i < MemSize THEN [memory |-> SetCell(m, i, v), past |-> p]
    ELSE [memory |-> m, past |-> v]

\* mutant: the status register cannot be written
mem_write_StatusReadOnly(m, p, address, val) ==
    IF address = MR_KBSR THEN [memory |-> m, past |-> p]
    ELSE Store(m, p, address, val)

mem_write(m, p, address, val) == Store(m, p, address, val)

\* mutant: the poll sets the status bit and leaves the keystroke unread
mem_read_NoGetchar(m, p, k, address) ==
    LET poll == address = MR_KBSR
        m1 == IF ~poll THEN m
              ELSE IF k # <<>> THEN SetCell(m, MR_KBSR, Shl(1, 15))
                   ELSE SetCell(m, MR_KBSR, 0)
    IN [val |-> Load(m1, p, address), memory |-> m1, kbd |-> k]

\* mem_read(address) with k the pending keystrokes: the value returned and
\* the memory and keystrokes left behind
mem_read(m, p, k, address) ==
    LET poll == address = MR_KBSR
        m1 == IF ~poll THEN m
              ELSE IF k # <<>>
                   THEN SetCell(SetCell(m, MR_KBSR, Shl(1, 15)), MR_KBDR, ToU16(Head(k)))
                   ELSE SetCell(m, MR_KBSR, 0)
        k1 == IF poll /\ k # <<>> THEN Tail(k) ELSE k
    IN [val |-> Load(m1, p, address), memory |-> m1, kbd |-> k1]

(* ------------------------------------------------------------------ *)
(* Image files                                                         *)
(* ------------------------------------------------------------------ *)
\* the bytes of a file holding the words ws, each big-endian
RECURSIVE BigEndian(_)
BigEndian(ws) ==
    IF ws = <<>> THEN <<>>
    ELSE <<Shr(Head(ws), 8), Head(ws) % 256>> \o BigEndian(Tail(ws))

\* a file that can be opened, with its bytes; and one that cannot
File(bytes) == [exists |-> TRUE, bytes |-> bytes]

NoFile == [exists |-> FALSE, bytes |-> <<>>]

\* a well-formed image: origin, then the words to place there
Image(origin, ws) == File(BigEndian(<<origin>> \o ws))

\* the uint16_t that fread leaves for the n-th byte pair of bs (the host
\* stores the first byte of a pair in the low half)
RawWord(bs, n) == bs[2 * n - 1] + 256 * bs[2 * n]

\* read_image_file on memory m.  u is the value the local `origin` holds
\* when fread could not fill it; t says whether fread left the bytes of a
\* partial last element in the buffer
read_image_file(m, bytes, u, t) ==
    LET got == Len(bytes) >= 2
        origin == swap16(IF got THEN RawWord(bytes, 1) ELSE u)
        rest == IF got THEN SubSeq(bytes, 3, Len(bytes)) ELSE <<>>
        max_read == ToU16(UINT16_MAX - origin)
        avail == Len(rest) \div 2
        read == IF avail < max_read THEN avail ELSE max_read
        partial == t /\ read < max_read /\ Len(rest) > 2 * read
        filled == {origin + n - 1 : n \in 1..read}
        torn == IF partial THEN {origin + read} ELSE {}
    IN [a \in (DOMAIN m) \cup filled \cup torn |->
          IF a \in filled THEN swap16(RawWord(rest, a - origin + 1))
          ELSE IF a \in torn THEN Shl(Shr(Cell(m, a), 8), 8) + rest[Len(rest)]
          ELSE m[a]]

\* read_image: [ok, memory]
read_image(m, file, u, t) ==
    IF ~file.exists THEN [ok |-> FALSE, memory |-> m]
    ELSE [ok |-> TRUE, memory |-> read_image_file(m, file.bytes, u, t)]

(* ------------------------------------------------------------------ *)
(* Inputs: image files, keystrokes, the word behind the array          *)
(* ------------------------------------------------------------------ *)
\* LEA R0,+1 ; TRAP HALT
LeaHalt == Image(PC_START, <<\hE001, \hF025>>)

\* LEA R0,+2 ; PUTS ; HALT ; "HI" ; 0
PutsHi == Image(PC_START, <<\hE002, \hF022, \hF025, \h0048, \h0049, 0>>)

\* LDI R1,KBSR ; LDI R2,KBDR ; BRnzp -3 ; pointers
PollKbd == Image(PC_START, <<\hA202, \hA402, \h0FFD, \hFE00, \hFE02>>)

\* GETC ; OUT ; IN ; HALT
CharIO == Image(PC_START, <<\hF020, \hF021, \hF023, \hF025>>)

\* RTI ; RES ; ADD R0,R0,#-2 ; ADD R1,R0,R0 ; AND R2,R1,#10 ; AND R3,R2,R1 ;
\* BRn -5 ; TRAP 0x0D
Arith ==
    Image(PC_START, <<\h8000, \hD000, \h103E, \h1200, \h546A, \h5681, \h09FB, \hF00D>>)

\* JSR +1 ; HALT ; JSRR R7 ; LEA R1,-3 ; JSRR R1
Calls == Image(PC_START, <<\h4801, \hF025, \h41C0, \hE3FD, \h4040>>)

\* LDI R2,+5 ; NOT R3,R3 ; LD R1,+4 ; STR R1,R3,#0 ; LDR R2,R3,#0 ; JMP R3 ;
\* 0xFFFF ; 0x25FF   (0x25FF is LD R2,#-1, stored to 0xFFFF and run there)
TopOfMemory ==
    Image(PC_START, <<\hA405, \h96FF, \h2204, \h72C0, \h64C0, \hC0C0, \hFFFF, \h25FF>>)

\* LD R1,+5 ; ST R1,+5 ; STI R1,+3 ; ADD R2,R1,#-2 ; STR R1,R2,#0 ; HALT ; 0xFE02
LoadStore ==
    Image(PC_START, <<\h2205, \h3205, \hB203, \h147E, \h7280, \hF025, \hFE02>>)

\* ADD R0,R0,#-2 ; PUTS ; PUTSP ; HALT   (the string starts at 0xFFFE)
PutsTop == Image(PC_START, <<\h103E, \hF022, \hF024, \hF025>>)

\* two words for 0xFFFE and 0xFFFF
DataTop == Image(\hFFFE, <<\h4241, \h0043>>)

\* three words for 0xFFFE, 0xFFFF and the address after the last
DataOver == Image(\hFFFE, <<\h0051, \h0052, \h0053>>)

\* files cut short: no byte at all, and a byte after the last whole word
Empty == File(<<>>)

OddBytes == File(<<\h30, \h00, \hF0, \h25, \hE0>>)

Images ==
    {LeaHalt, PutsHi, PollKbd, CharIO, Arith, Calls, TopOfMemory, LoadStore,
     PutsTop, DataTop, DataOver, Empty, OddBytes, NoFile}

\* the command lines: argv[1..argc-1]
ArgLists == UNION {[1..n -> Images] : n \in 0..MaxArgs}

\* codes a keystroke can deliver through getchar()
Keys == {\h41, \hE9}

\* what an uninitialised uint16_t local may hold
Indeterminate == {0, PC_START, UINT16_MAX}

\* what the word behind the array may hold at start
PastWords == {0, \hF025}

(* ------------------------------------------------------------------ *)
(* Texts written by printf and puts, as bytes                          *)
(* ------------------------------------------------------------------ *)
\* "lc3 [image-file1] ...\n"
UsageText == <<108, 99, 51, 32, 91, 105, 109, 97, 103, 101, 45, 102, 105, 108, 101, 49, 93, 32, 46, 46, 46, 10>>

\* "failed to load image: " (the path and the newline follow)
FailedText == <<102, 97, 105, 108, 101, 100, 32, 116, 111, 32, 108, 111, 97, 100, 32, 105, 109, 97, 103, 101, 58, 32>>

\* "HALT\n"
HaltNotice == <<72, 65, 76, 84, 10>>

\* "Enter a character: "
InPrompt == <<69, 110, 116, 101, 114, 32, 97, 32, 99, 104, 97, 114, 97, 99, 116, 101, 114, 58, 32>>

\* no function is called on its own
NoProbe == [f |-> "none"]

(* ------------------------------------------------------------------ *)
(* State                                                               *)
(* ------------------------------------------------------------------ *)
VARIABLES
    argv,      \* the image files named on the command line
    j,         \* index of the next argument to load
    pcl,       \* where main is: "load", "run", "exit", "aborted", "crashed"
    exitCode,  \* the status main exited with, -1 while it has not
    reg,       \* reg[R_COUNT]
    memory,    \* the array memory[0 .. MemSize-1], sparse
    past,      \* the word that lies right behind the array
    running,   \* main's local `running`
    instr,     \* main's local `instr`: the word fetched last
    kbd,       \* keystrokes typed and not yet read
    out,       \* bytes written to stdout
    rawMode,   \* console input buffering is disabled
    steps,     \* iterations of the fetch loop done
    log,       \* the accesses to `memory` of the latest iteration, in order:
               \* "read" = mem_read, "write" = mem_write, "deref" = *c
    probe      \* a call of one function on its own: its arguments and result

vars == <<argv, j, pcl, exitCode, reg, memory, past, running, instr, kbd,
          out, rawMode, steps, log, probe>>

Init ==
    /\ argv \in ArgLists
    /\ j = 1
    /\ pcl = "load"
    /\ exitCode = -1
    /\ reg = [r \in 0..(R_COUNT - 1) |-> 0]
    /\ memory = <<>>
    /\ past \in PastWords
    /\ running = FALSE
    /\ instr = 0
    /\ kbd = <<>>
    /\ out = <<>>
    /\ rawMode = FALSE
    /\ steps = 0
    /\ log = <<>>
    /\ probe = NoProbe

(* ------------------------------------------------------------------ *)
(* The environment                                                     *)
(* ------------------------------------------------------------------ *)
\* a key is pressed (keys pressed before the loop starts are still pending
\* when it starts, so they are taken to arrive then)
KeyPress ==
    /\ pcl = "run"
    /\ Len(kbd) < MaxPending
    /\ \E c \in Keys : kbd' = Append(kbd, c)
    /\ UNCHANGED <<argv, j, pcl, exitCode, reg, memory, past, running, instr,
                   out, rawMode, steps, log, probe>>

(* ------------------------------------------------------------------ *)
(* main: arguments, image loading, setup                               *)
(* ------------------------------------------------------------------ *)
\* argc < 2: print the usage string and exit(2)
Usage ==
    /\ pcl = "load"
    /\ argv = <<>>
    /\ out' = out \o UsageText
    /\ pcl' = "exit"
    /\ exitCode' = 2
    /\ UNCHANGED <<argv, j, reg, memory, past, running, instr, kbd, rawMode,
                   steps, log, probe>>

\* one iteration of the loop over argv
LoadImage ==
    /\ pcl = "load"
    /\ j <= Len(argv)
    /\ \E u \in Indeterminate, t \in BOOLEAN :
         LET r == read_image(memory, argv[j], u, t) IN
         IF r.ok
         THEN /\ memory' = r.memory
              /\ j' = j + 1
              /\ UNCHANGED <<pcl, exitCode, out>>
         ELSE /\ out' = out \o FailedText \o <<10>>
              /\ pcl' = "exit"
              /\ exitCode' = 1
              /\ UNCHANGED <<memory, j>>
    /\ UNCHANGED <<argv, reg, past, running, instr, kbd, rawMode, steps, log,
                   probe>>

\* mutant: the PC is left where the zeroed register file has it
Setup_NoStartPC ==
    /\ pcl = "load"
    /\ argv # <<>>
    /\ j > Len(argv)
    /\ rawMode' = TRUE
    /\ reg' = [reg EXCEPT ![R_COND] = FL_ZRO]
    /\ running' = TRUE
    /\ pcl' = "run"
    /\ UNCHANGED <<argv, j, exitCode, memory, past, instr, kbd, out, steps, log,
                   probe>>

\* after the last image: signal handler, raw console, flags, PC, running
Setup ==
    /\ pcl = "load"
    /\ argv # <<>>
    /\ j > Len(argv)
    /\ rawMode' = TRUE
    /\ reg' = [reg EXCEPT ![R_COND] = FL_ZRO, ![R_PC] = PC_START]
    /\ running' = TRUE
    /\ pcl' = "run"
    /\ UNCHANGED <<argv, j, exitCode, memory, past, instr, kbd, out, steps, log,
                   probe>>

(* ------------------------------------------------------------------ *)
(* The machine inside one iteration of the fetch loop                  *)
(* ------------------------------------------------------------------ *)
\* the state an instruction works on, with the accesses made so far
Machine ==
    [reg |-> reg, memory |-> memory, past |-> past, kbd |-> kbd, out |-> out,
     log |-> <<>>]

\* mem_read(address) inside an iteration: the value, and the machine after
ReadVal(M, address) == mem_read(M.memory, M.past, M.kbd, address).val

ReadEff(M, address) ==
    LET r == mem_read(M.memory, M.past, M.kbd, address)
    IN [M EXCEPT !.memory = r.memory, !.kbd = r.kbd,
                 !.log = Append(@, [k |-> "read", a |-> address, v |-> r.val])]

\* mem_write(address, val) inside an iteration
WriteEff(M, address, val) ==
    LET w == mem_write(M.memory, M.past, address, val)
    IN [M EXCEPT !.memory = w.memory, !.past = w.past,
                 !.log = Append(@, [k |-> "write", a |-> address, v |-> val])]

\* instr = mem_read(reg[R_PC]++)
FetchVal(M) == ReadVal(M, M.reg[R_PC])

FetchEff(M) ==
    [ReadEff(M, M.reg[R_PC]) EXCEPT !.reg[R_PC] = ToU16(M.reg[R_PC] + 1)]

\* instruction fields
Opcode(i) == Shr(i, 12)

DR(i) == BitAnd(Shr(i, 9), 7)

SR1(i) == BitAnd(Shr(i, 6), 7)

SR2(i) == BitAnd(i, 7)

ImmFlag(i) == BitAnd(Shr(i, 5), 1)

TrapVect(i) == BitAnd(i, 255)

\* reg[r0] = v; update_flags(r0)
SetReg(M, r0, v) == [M EXCEPT !.reg = update_flags([M.reg EXCEPT ![r0] = v], r0)]

(* ------------------------------------------------------------------ *)
(* The cases of the opcode switch, on the machine after the fetch      *)
(* ------------------------------------------------------------------ *)
\* mutant: the immediate is added as an unsigned 5-bit number
op_ADD_ImmUnsigned(M, i) ==
    IF ImmFlag(i) # 0
    THEN SetReg(M, DR(i), ToU16(M.reg[SR1(i)] + BitAnd(i, 31)))
    ELSE SetReg(M, DR(i), ToU16(M.reg[SR1(i)] + M.reg[SR2(i)]))

op_ADD(M, i) ==
    IF ImmFlag(i) # 0
    THEN SetReg(M, DR(i), ToU16(M.reg[SR1(i)] + sign_extend(BitAnd(i, 31), 5)))
    ELSE SetReg(M, DR(i), ToU16(M.reg[SR1(i)] + M.reg[SR2(i)]))

op_AND(M, i) ==
    IF ImmFlag(i) # 0
    THEN SetReg(M, DR(i), BitAnd(M.reg[SR1(i)], sign_extend(BitAnd(i, 31), 5)))
    ELSE SetReg(M, DR(i), BitAnd(M.reg[SR1(i)], M.reg[SR2(i)]))

op_NOT(M, i) == SetReg(M, DR(i), BitNot16(M.reg[SR1(i)]))

\* mutant: the offset is added as an unsigned 9-bit number
op_BR_OffsetUnsigned(M, i) ==
    IF BitAnd(DR(i), M.reg[R_COND]) # 0
    THEN [M EXCEPT !.reg[R_PC] = ToU16(@ + BitAnd(i, 511))]
    ELSE M

op_BR(M, i) ==
    IF BitAnd(DR(i), M.reg[R_COND]) # 0
    THEN [M EXCEPT !.reg[R_PC] = ToU16(@ + sign_extend(BitAnd(i, 511), 9))]
    ELSE M

op_JMP(M, i) == [M EXCEPT !.reg[R_PC] = M.reg[SR1(i)]]

\* mutant: the link is stored after the jump
op_JSR_LinkAfterJump(M, i) ==
    LET J == IF BitAnd(Shr(i, 11), 1) # 0
             THEN [M EXCEPT !.reg[R_PC] = ToU16(@ + sign_extend(BitAnd(i, 2047), 11))]
             ELSE [M EXCEPT !.reg[R_PC] = M.reg[SR1(i)]]
    IN [J EXCEPT !.reg[R_R7] = J.reg[R_PC]]

\* reg[R_R7] = reg[R_PC] comes first; JSRR then reads reg[r1]
op_JSR(M, i) ==
    LET L == [M EXCEPT !.reg[R_R7] = M.reg[R_PC]]
    IN IF BitAnd(Shr(i, 11), 1) # 0
       THEN [L EXCEPT !.reg[R_PC] = ToU16(@ + sign_extend(BitAnd(i, 2047), 11))]
       ELSE [L EXCEPT !.reg[R_PC] = L.reg[SR1(i)]]

op_LD(M, i) ==
    LET ea == ToU16(M.reg[R_PC] + sign_extend(BitAnd(i, 511), 9))
    IN SetReg(ReadEff(M, ea), DR(i), ReadVal(M, ea))

op_LDI(M, i) ==
    LET ea == ToU16(M.reg[R_PC] + sign_extend(BitAnd(i, 511), 9))
        M1 == ReadEff(M, ea)
        ptr == ReadVal(M, ea)
    IN SetReg(ReadEff(M1, ptr), DR(i), ReadVal(M1, ptr))

op_LDR(M, i) ==
    LET ea == ToU16(M.reg[SR1(i)] + sign_extend(BitAnd(i, 63), 6))
    IN SetReg(ReadEff(M, ea), DR(i), ReadVal(M, ea))

op_LEA(M, i) ==
    SetReg(M, DR(i), ToU16(M.reg[R_PC] + sign_extend(BitAnd(i, 511), 9)))

op_ST(M, i) ==
    WriteEff(M, ToU16(M.reg[R_PC] + sign_extend(BitAnd(i, 511), 9)), M.reg[DR(i)])

op_STI(M, i) ==
    LET ea == ToU16(M.reg[R_PC] + sign_extend(BitAnd(i, 511), 9))
    IN WriteEff(ReadEff(M, ea), ReadVal(M, ea), M.reg[DR(i)])

op_STR(M, i) ==
    WriteEff(M, ToU16(M.reg[SR1(i)] + sign_extend(BitAnd(i, 63), 6)), M.reg[DR(i)])

\* case OP_TRAP, before the inner switch
op_TRAP(M) == [M EXCEPT !.reg[R_R7] = M.reg[R_PC]]

(* ------------------------------------------------------------------ *)
(* Trap routines                                                       *)
(* ------------------------------------------------------------------ *)
\* (uint16_t) of a plain char holding the byte c (plain char is signed on
\* the targets this file builds for)
CharToU16(c) == IF c >= 128 THEN ToU16(c - 256 + WordRange) ELSE c

\* bytes putc((char)w) writes
LowByte(w) == w % 256

\* number of consecutive non-zero cells of the array from index i on
RECURSIVE RunLength(_, _)
RunLength(m, i) ==
    IF i >= MemSize \/ Cell(m, i) = 0 THEN 0 ELSE 1 + RunLength(m, i + 1)

\* the walk `c = memory + reg[R_R0]; while (*c) ++c;` : the non-zero words
\* it passes, the indices it reads, and whether it left the array and went
\* on behind the adjoining word
WalkEnd(M) == M.reg[R_R0] + RunLength(M.memory, M.reg[R_R0])

WalkOver(M) == WalkEnd(M) = MemSize /\ M.past # 0

WalkWords(M) ==
    [x \in 1..(WalkEnd(M) - M.reg[R_R0]) |-> Cell(M.memory, M.reg[R_R0] + x - 1)]
      \o (IF WalkOver(M) THEN <<M.past>> ELSE <<>>)

WalkLog(M) ==
    [x \in 1..(WalkEnd(M) - M.reg[R_R0] + 1 + (IF WalkOver(M) THEN 1 ELSE 0)) |->
        [k |-> "deref", a |-> M.reg[R_R0] + x - 1,
         v |-> IF M.reg[R_R0] + x - 1 <= MemSize
               THEN Load(M.memory, M.past, M.reg[R_R0] + x - 1) ELSE 0]]

\* one byte per word
PutsBytes(ws) == [x \in 1..Len(ws) |-> LowByte(ws[x])]

\* two bytes per word, the high one only when it is not 0
RECURSIVE PutspBytes(_)
PutspBytes(ws) ==
    IF ws = <<>> THEN <<>>
    ELSE <<LowByte(Head(ws))>>
           \o (IF Shr(Head(ws), 8) # 0 THEN <<Shr(Head(ws), 8)>> ELSE <<>>)
           \o PutspBytes(Tail(ws))

trap_GETC(M) == SetReg([M EXCEPT !.kbd = Tail(@)], R_R0, ToU16(Head(M.kbd)))

trap_OUT(M) == [M EXCEPT !.out = Append(@, LowByte(M.reg[R_R0]))]

trap_PUTS(M) ==
    [M EXCEPT !.out = @ \o PutsBytes(WalkWords(M)), !.log = @ \o WalkLog(M)]

trap_IN(M) ==
    SetReg([M EXCEPT !.kbd = Tail(@),
                     !.out = @ \o InPrompt \o <<LowByte(Head(M.kbd))>>],
           R_R0, CharToU16(Head(M.kbd)))

trap_PUTSP(M) ==
    [M EXCEPT !.out = @ \o PutspBytes(WalkWords(M)), !.log = @ \o WalkLog(M)]

trap_HALT(M) == [M EXCEPT !.out = @ \o HaltNotice]

(* ------------------------------------------------------------------ *)
(* One iteration of `while (running)` per action                       *)
(* ------------------------------------------------------------------ *)
CanStep == pcl = "run" /\ running /\ steps < MaxSteps

\* the instruction this iteration fetches, and the machine after the fetch
Fetched == FetchVal(Machine)

AfterFetch == FetchEff(Machine)

\* the end of an iteration that stays in the loop
Continue(M, raw) ==
    /\ reg' = M.reg
    /\ memory' = M.memory
    /\ past' = M.past
    /\ kbd' = M.kbd
    /\ out' = M.out
    /\ log' = M.log
    /\ instr' = Fetched
    /\ steps' = steps + 1
    /\ rawMode' = raw
    /\ UNCHANGED <<argv, j, pcl, exitCode, running, probe>>

\* the end of an iteration that leaves main
Leave(M, raw, how, code, run) ==
    /\ reg' = M.reg
    /\ memory' = M.memory
    /\ past' = M.past
    /\ kbd' = M.kbd
    /\ out' = M.out
    /\ log' = M.log
    /\ instr' = Fetched
    /\ steps' = steps + 1
    /\ rawMode' = raw
    /\ pcl' = how
    /\ exitCode' = code
    /\ running' = run
    /\ UNCHANGED <<argv, j, probe>>

ExecADD == CanStep /\ Opcode(Fetched) = OP_ADD /\ Continue(op_ADD(AfterFetch, Fetched), rawMode)

ExecAND == CanStep /\ Opcode(Fetched) = OP_AND /\ Continue(op_AND(AfterFetch, Fetched), rawMode)

ExecNOT == CanStep /\ Opcode(Fetched) = OP_NOT /\ Continue(op_NOT(AfterFetch, Fetched), rawMode)

ExecBR == CanStep /\ Opcode(Fetched) = OP_BR /\ Continue(op_BR(AfterFetch, Fetched), rawMode)

ExecJMP == CanStep /\ Opcode(Fetched) = OP_JMP /\ Continue(op_JMP(AfterFetch, Fetched), rawMode)

ExecJSR == CanStep /\ Opcode(Fetched) = OP_JSR /\ Continue(op_JSR(AfterFetch, Fetched), rawMode)

ExecLD == CanStep /\ Opcode(Fetched) = OP_LD /\ Continue(op_LD(AfterFetch, Fetched), rawMode)

ExecLDI == CanStep /\ Opcode(Fetched) = OP_LDI /\ Continue(op_LDI(AfterFetch, Fetched), rawMode)

ExecLDR == CanStep /\ Opcode(Fetched) = OP_LDR /\ Continue(op_LDR(AfterFetch, Fetched), rawMode)

ExecLEA == CanStep /\ Opcode(Fetched) = OP_LEA /\ Continue(op_LEA(AfterFetch, Fetched), rawMode)

ExecST == CanStep /\ Opcode(Fetched) = OP_ST /\ Continue(op_ST(AfterFetch, Fetched), rawMode)

ExecSTI == CanStep /\ Opcode(Fetched) = OP_STI /\ Continue(op_STI(AfterFetch, Fetched), rawMode)

ExecSTR == CanStep /\ Opcode(Fetched) = OP_STR /\ Continue(op_STR(AfterFetch, Fetched), rawMode)

\* OP_RTI and OP_RES: the opcode switch has no case for them and no default
NoCase(op) == op \in {OP_RTI, OP_RES}

ExecNoCase == CanStep /\ NoCase(Opcode(Fetched)) /\ Continue(AfterFetch, rawMode)

\* case OP_TRAP: the inner switch, then restore_input_buffering()
IsTrap(v) == CanStep /\ Opcode(Fetched) = OP_TRAP /\ TrapVect(Fetched) = v

\* getchar() waits for a keystroke
TrapGetc ==
    /\ IsTrap(TRAP_GETC)
    /\ AfterFetch.kbd # <<>>
    /\ Continue(trap_GETC(op_TRAP(AfterFetch)), FALSE)

TrapOut == IsTrap(TRAP_OUT) /\ Continue(trap_OUT(op_TRAP(AfterFetch)), FALSE)

\* when the walk runs off the array and the adjoining word is not 0, the
\* word after that is either 0 or cannot be read
TrapPuts ==
    /\ IsTrap(TRAP_PUTS)
    /\ LET M == trap_PUTS(op_TRAP(AfterFetch)) IN
         \/ Continue(M, FALSE)
         \/ WalkOver(AfterFetch) /\ Leave(M, rawMode, "crashed", -1, running)

TrapIn ==
    /\ IsTrap(TRAP_IN)
    /\ AfterFetch.kbd # <<>>
    /\ Continue(trap_IN(op_TRAP(AfterFetch)), FALSE)

TrapPutsp ==
    /\ IsTrap(TRAP_PUTSP)
    /\ LET M == trap_PUTSP(op_TRAP(AfterFetch)) IN
         \/ Continue(M, FALSE)
         \/ WalkOver(AfterFetch) /\ Leave(M, rawMode, "crashed", -1, running)

\* mutant: the halt notice is written and `running` stays 1
TrapHalt_KeepsRunning ==
    /\ IsTrap(TRAP_HALT)
    /\ Continue(trap_HALT(op_TRAP(AfterFetch)), FALSE)

\* running = 0 ends the loop and main returns
TrapHalt ==
    /\ IsTrap(TRAP_HALT)
    /\ Leave(trap_HALT(op_TRAP(AfterFetch)), FALSE, "exit", 0, FALSE)

\* case OP_RES, case OP_RTI and default of the inner switch: abort()
TrapKnown == {TRAP_GETC, TRAP_OUT, TRAP_PUTS, TRAP_IN, TRAP_PUTSP, TRAP_HALT}

\* mutant: an unknown vector is ignored like a case without effect
TrapDefault_FallsThrough ==
    /\ CanStep
    /\ Opcode(Fetched) = OP_TRAP
    /\ TrapVect(Fetched) \notin TrapKnown
    /\ Continue(op_TRAP(AfterFetch), FALSE)

TrapDefault ==
    /\ CanStep
    /\ Opcode(Fetched) = OP_TRAP
    /\ TrapVect(Fetched) \notin TrapKnown
    /\ Leave(op_TRAP(AfterFetch), rawMode, "aborted", -1, running)

Next ==
    \/ KeyPress
    \/ Usage
    \/ LoadImage
    \/ Setup
    \/ ExecADD
    \/ ExecAND
    \/ ExecNOT
    \/ ExecBR
    \/ ExecJMP
    \/ ExecJSR
    \/ ExecLD
    \/ ExecLDI
    \/ ExecLDR
    \/ ExecLEA
    \/ ExecST
    \/ ExecSTI
    \/ ExecSTR
    \/ ExecNoCase
    \/ TrapGetc
    \/ TrapOut
    \/ TrapPuts
    \/ TrapIn
    \/ TrapPutsp
    \/ TrapHalt
    \/ TrapDefault

Spec == Init /\ [][Next]_vars

TypeOK ==
    /\ \A r \in 0..(R_COUNT - 1) : reg[r] \in 0..UINT16_MAX
    /\ \A a \in DOMAIN memory : a \in 0..(MemSize - 1) /\ memory[a] \in 0..UINT16_MAX
    /\ past \in 0..UINT16_MAX
    /\ instr \in 0..UINT16_MAX

(* ------------------------------------------------------------------ *)
(* Functions called on their own                                       *)
(* ------------------------------------------------------------------ *)
\* the field widths sign_extend is asked about
Widths == {3, 5, 6, 9, 11}

\* sign_extend(x, bit_count) for every x that fits the field
SignExtendCalls ==
    UNION {{[f |-> "sign_extend", x |-> x, bit_count |-> n, done |-> FALSE, y |-> 0] :
                x \in 0..(Shl(1, n) - 1)} : n \in Widths}

\* an instruction word of the ADD/AND layout: op | DR | SR1 | mode and operand
Encode(op, dr, sr1, low6) == Shl(op, 12) + Shl(dr, 9) + Shl(sr1, 6) + low6

\* the registers the two instructions name
RegSel == {0, 1, 7}

\* what the second source register holds: every value a 5-bit immediate can
\* stand for, and two it cannot
SourceVals == (0..15) \cup (65520..65535) \cup {16, 32767}

\* what the other registers hold
OtherVals == {1, 32767, 65535}

\* the register file with v in register s and w in the others
RegFile(s, v, w) ==
    [r \in 0..(R_COUNT - 1) |->
        IF r = s THEN v ELSE IF r < R_PC THEN w ELSE IF r = R_PC THEN PC_START ELSE FL_ZRO]

\* one ADD or AND in register mode and one in immediate mode, same DR and SR1,
\* on the same registers; the immediate is the low five bits of reg[SR2] or
\* of the number after it
AluCalls ==
    {[f |-> IF op = OP_ADD THEN "ADD" ELSE "AND",
      rg |-> RegFile(sr2, v, w),
      byReg |-> Encode(op, dr, sr1, sr2),
      byImm |-> Encode(op, dr, sr1, 32 + ((v + d) % 32)),
      done |-> FALSE,
      regReg |-> RegFile(sr2, v, w),
      regImm |-> RegFile(sr2, v, w)] :
        op \in {OP_ADD, OP_AND}, dr \in RegSel, sr1 \in RegSel, sr2 \in RegSel,
        v \in SourceVals, w \in OtherVals, d \in {0, 1}}

\* the machine the two instructions meet
ProbeMachine == [Machine EXCEPT !.reg = probe.rg]

InitPure ==
    /\ argv = <<>>
    /\ j = 1
    /\ pcl = "load"
    /\ exitCode = -1
    /\ reg = [r \in 0..(R_COUNT - 1) |-> 0]
    /\ memory = <<>>
    /\ past = 0
    /\ running = FALSE
    /\ instr = 0
    /\ kbd = <<>>
    /\ out = <<>>
    /\ rawMode = FALSE
    /\ steps = 0
    /\ log = <<>>
    /\ probe \in SignExtendCalls \cup AluCalls

Machinery == <<argv, j, pcl, exitCode, reg, memory, past, running, instr, kbd,
               out, rawMode, steps, log>>

ApplySignExtend ==
    /\ probe.f = "sign_extend"
    /\ ~probe.done
    /\ probe' = [probe EXCEPT !.y = sign_extend(probe.x, probe.bit_count),
                              !.done = TRUE]
    /\ UNCHANGED Machinery

ApplyADD ==
    /\ probe.f = "ADD"
    /\ ~probe.done
    /\ probe' = [probe EXCEPT !.regReg = op_ADD(ProbeMachine, probe.byReg).reg,
                              !.regImm = op_ADD(ProbeMachine, probe.byImm).reg,
                              !.done = TRUE]
    /\ UNCHANGED Machinery

ApplyAND ==
    /\ probe.f = "AND"
    /\ ~probe.done
    /\ probe' = [probe EXCEPT !.regReg = op_AND(ProbeMachine, probe.byReg).reg,
                              !.regImm = op_AND(ProbeMachine, probe.byImm).reg,
                              !.done = TRUE]
    /\ UNCHANGED Machinery

NextPure ==
    \/ ApplySignExtend
    \/ ApplyADD
    \/ ApplyAND

SpecPure == InitPure /\ [][NextPure]_vars

(* ------------------------------------------------------------------ *)
(* Vocabulary of the properties                                        *)
(* ------------------------------------------------------------------ *)
\* an iteration of the fetch loop is taken by this step
Stepped == steps' = steps + 1

\* the latest iteration's instruction is in `instr`
Executed == steps > 0

\* the address the latest instruction was fetched from
FetchAddr == log[1].a

\* the fetch loop has been entered
Started == pcl \in {"run", "aborted", "crashed"} \/ (pcl = "exit" /\ exitCode = 0)

\* main has left the loop through `running = 0`
Halted == pcl = "exit" /\ exitCode = 0

\* sign class of a 16-bit value: 1 positive, 2 zero, 4 negative
SignClass(v) == IF v = 0 THEN 2 ELSE IF v >= 32768 THEN 4 ELSE 1

\* opcodes whose case stores into reg[DR] and calls update_flags
WritesDR == {OP_ADD, OP_AND, OP_NOT, OP_LD, OP_LDI, OP_LDR, OP_LEA}

IsGetcOrIn(i) == Opcode(i) = OP_TRAP /\ TrapVect(i) \in {TRAP_GETC, TRAP_IN}

\* JSR, JSRR and every TRAP store the link into R7
WritesLink(i) == Opcode(i) \in {OP_JSR, OP_TRAP}

(* ------------------------------------------------------------------ *)
(* C1                                                                  *)
(* ------------------------------------------------------------------ *)
\* C1: once an instruction with opcode RTI (8) or RES (13) has been fetched,
\* the run is in its fatal-fault state and the loop does not go on.
C1_ReservedOpcodeFaults ==
    (Executed /\ Opcode(instr) \in {OP_RTI, OP_RES}) => pcl = "aborted"

C3_FlagsOneHot == Started => reg[R_COND] \in {1, 2, 4}

\* the flags have gone from ZERO to NEGATIVE and on to POSITIVE
C3_Witness ==
    /\ Started
    /\ steps > 3
    /\ Opcode(instr) = OP_AND
    /\ reg[R_R1] >= 32768
    /\ reg[R_COND] = FL_POS

(* ------------------------------------------------------------------ *)
(* C4                                                                  *)
(* ------------------------------------------------------------------ *)
\* C4: every access an iteration makes to `memory` (fetch, mem_read,
\* mem_write, the PUTS/PUTSP walk) uses an index inside the array.
C4_AccessesInBounds ==
    \A n \in 1..Len(log) : log[n].a \in 0..(MemSize - 1)

(* ------------------------------------------------------------------ *)
(* C5                                                                  *)
(* ------------------------------------------------------------------ *)
\* C5: TRAP 0x25 appends the halt notice to the output once and clears
\* `running`; after that no instruction is fetched and registers, memory and
\* output stay as they are.  The image LEA ; TRAP HALT at 0x3000, run alone,
\* ends after two instructions with exactly the halt notice written.
C5_Halt ==
    /\ [][(Stepped /\ Opcode(instr') = OP_TRAP /\ TrapVect(instr') = TRAP_HALT) =>
              /\ out' = out \o HaltNotice
              /\ ~running'
              /\ pcl' = "exit"]_vars
    /\ [][Halted => UNCHANGED <<reg, memory, past, out, instr, steps, pcl, running>>]_vars
    /\ [](Halted <=> (Started /\ ~running))
    /\ []((argv = <<LeaHalt>> /\ steps >= 2) =>
              /\ steps = 2
              /\ ~running
              /\ pcl = "exit"
              /\ out = HaltNotice)

\* the LEA ; HALT image has run to its end
C5_Witness ==
    /\ argv = <<LeaHalt>>
    /\ pcl = "exit"
    /\ ~running
    /\ Opcode(instr) = OP_TRAP
    /\ out = HaltNotice

(* ------------------------------------------------------------------ *)
(* C6                                                                  *)
(* ------------------------------------------------------------------ *)
\* C6: after a JSR, JSRR or TRAP fetched from address a, R7 = (a + 1) mod 2^16.
C6_LinkIsNextAddress ==
    (Executed /\ WritesLink(instr)) => reg[R_R7] = (FetchAddr + 1) % 65536

\* a JSRR through R7 itself, and a JSR, have been executed
C6_Witness ==
    /\ Executed
    /\ Opcode(instr) = OP_JSR
    /\ BitAnd(Shr(instr, 11), 1) = 0
    /\ SR1(instr) = R_R7
    /\ reg[R_R7] = FetchAddr + 1

(* ------------------------------------------------------------------ *)
(* C7                                                                  *)
(* ------------------------------------------------------------------ *)
\* C7: a TRAP whose vector is not 0x20..0x25 ends the run in the fatal-fault
\* state without output, without a write to R0 and without a flag update, and
\* nothing is executed after it.
C7_UnknownTrapFaults ==
    /\ [][(Stepped /\ Opcode(instr') = OP_TRAP /\ TrapVect(instr') \notin 32..37) =>
              /\ pcl' = "aborted"
              /\ out' = out
              /\ kbd' = kbd
              /\ reg'[R_R0] = reg[R_R0]
              /\ reg'[R_COND] = reg[R_COND]]_vars
    /\ [][pcl = "aborted" =>
              UNCHANGED <<reg, memory, past, out, instr, steps, pcl>>]_vars

\* the run was aborted by TRAP 0x0D
C7_Witness ==
    /\ pcl = "aborted"
    /\ Opcode(instr) = OP_TRAP
    /\ TrapVect(instr) = 13

(* ------------------------------------------------------------------ *)
(* C8                                                                  *)
(* ------------------------------------------------------------------ *)
\* a file read_image must refuse: it cannot be opened, has fewer than 2
\* bytes, or ends in the middle of a word
Truncated(file) ==
    ~file.exists \/ Len(file.bytes) < 2 \/ Len(file.bytes) % 2 = 1

\* C8: no truncated or unopenable file is ever loaded with success (the loop
\* over argv never moves past it, and the fetch loop never starts).
C8_TruncatedImageRefused ==
    \A n \in 1..Len(argv) : (n < j) => ~Truncated(argv[n])

(* ------------------------------------------------------------------ *)
(* C9                                                                  *)
(* ------------------------------------------------------------------ *)
\* origin and words of an image file, decoded big-endian
OriginOf(file) == 256 * file.bytes[1] + file.bytes[2]

WordCount(file) == (Len(file.bytes) - 2) \div 2

WordOf(file, n) == 256 * file.bytes[2 * n + 1] + file.bytes[2 * n + 2]

Fits(file) == OriginOf(file) + WordCount(file) <= 65536

\* cell a is covered by word n of the file
Covers(file, n, a) == n \in 1..WordCount(file) /\ a = OriginOf(file) + n - 1

\* C9: when every image loaded so far is whole and fits the address space,
\* each cell covered by an image holds the word of the last image covering
\* it, up to and including address 0xFFFF (before the program runs).
C9_ImageWordsInPlace ==
    (steps = 0 /\ \A n \in 1..(j - 1) : ~Truncated(argv[n]) /\ Fits(argv[n])) =>
        \A n \in 1..(j - 1) : \A w \in 1..WordCount(argv[n]) :
            LET a == OriginOf(argv[n]) + w - 1 IN
            (\A l \in (n + 1)..(j - 1) : \A x \in 1..WordCount(argv[l]) :
                 ~Covers(argv[l], x, a))
              => Load(memory, past, a) = WordOf(argv[n], w)

(* ------------------------------------------------------------------ *)
(* C10                                                                 *)
(* ------------------------------------------------------------------ *)
\* the mem_read calls of an iteration at address a, and its writes there
ReadsAt(lg, a) == {n \in 1..Len(lg) : lg[n].k = "read" /\ lg[n].a = a}

WritesAt(lg, a) == {n \in 1..Len(lg) : lg[n].k = "write" /\ lg[n].a = a}

\* C10: a read of 0xFE00 returns 0 and consumes nothing when no keystroke is
\* pending; with keystroke c pending it returns a word with bit 15 set,
\* consumes c and leaves c in the data cell; the data cell keeps its value
\* through every step that neither reads the status nor writes 0xFE02; and a
\* read of 0xFE02 returns the value of the data cell.
C10_KeyboardPoll ==
    /\ [][Stepped =>
            \A n \in ReadsAt(log', MR_KBSR) :
                IF kbd = <<>>
                THEN log'[n].v = 0 /\ kbd' = kbd
                ELSE /\ log'[n].v \div 32768 = 1
                     /\ kbd' = Tail(kbd)
                     /\ Cell(memory', MR_KBDR) = Head(kbd)]_vars
    /\ [][(Started /\ ~(Stepped /\ (ReadsAt(log', MR_KBSR) # {} \/ WritesAt(log', MR_KBDR) # {}))) =>
              Cell(memory', MR_KBDR) = Cell(memory, MR_KBDR)]_vars
    /\ [][Stepped =>
            \A n \in ReadsAt(log', MR_KBDR) : log'[n].v = Cell(memory, MR_KBDR)]_vars

\* the status read found 'A' pending and the data read that followed got it
C10_Witness ==
    /\ Executed
    /\ instr = 41986
    /\ FetchAddr = PC_START + 1
    /\ reg[1] = 32768
    /\ reg[2] = 65
    /\ kbd = <<>>

(* ------------------------------------------------------------------ *)
(* C11                                                                 *)
(* ------------------------------------------------------------------ *)
\* the two instructions of a call have the layout of the claim
AluDone == probe.f \in {"ADD", "AND"} /\ probe.done

\* the immediate of the second instruction stands for what reg[SR2] holds
SameOperand == probe.rg[SR2(probe.byReg)] = sign_extend(BitAnd(probe.byImm, 31), 5)

\* C11: when reg[SR2] equals the sign-extended 5-bit immediate, ADD in
\* register mode and ADD in immediate mode with the same DR and SR1 leave
\* the same value in DR and the same flags, and so do the two modes of AND
C11_ModesAgree ==
    (AluDone /\ SameOperand) =>
        /\ probe.regReg[DR(probe.byReg)] = probe.regImm[DR(probe.byImm)]
        /\ probe.regReg[R_COND] = probe.regImm[R_COND]

\* an ADD pair with a negative immediate whose DR is also SR2, compared
C11_Witness ==
    /\ AluDone
    /\ probe.f = "ADD"
    /\ SameOperand
    /\ BitAnd(probe.byImm, 31) >= 16
    /\ DR(probe.byReg) = SR2(probe.byReg)
    /\ probe.regReg[DR(probe.byReg)] # probe.rg[DR(probe.byReg)]

(* ------------------------------------------------------------------ *)
(* C12                                                                 *)
(* ------------------------------------------------------------------ *)
\* C12: for N in {3, 5, 6, 9, 11} and 0 <= x < 2^N, sign_extend(x, N) is x
\* when bit N-1 of x is 0, and (x - 2^N) mod 2^16 when it is 1
C12_SignExtend ==
    (probe.f = "sign_extend" /\ probe.done) =>
        LET N == probe.bit_count
            x == probe.x
        IN  IF x < 2^(N - 1)
            THEN probe.y = x
            ELSE probe.y = (x - 2^N) % 2^16

\* a negative 11-bit field, extended
C12_Witness ==
    /\ probe.f = "sign_extend"
    /\ probe.done
    /\ probe.bit_count = 11
    /\ probe.x = 1024
    /\ probe.y = 64512

(* ------------------------------------------------------------------ *)
(* C13                                                                 *)
(* ------------------------------------------------------------------ *)
\* the words of memory m from address a up to the first that is 0
RECURSIVE ZString(_, _)
ZString(m, a) ==
    IF a > UINT16_MAX \/ Cell(m, a) = 0 THEN <<>>
    ELSE <<Cell(m, a)>> \o ZString(m, a + 1)

\* this step is an iteration that runs TRAP PUTS
StepsPuts == Stepped /\ Opcode(instr') = OP_TRAP /\ TrapVect(instr') = TRAP_PUTS

\* C13: TRAP PUTS with R0 = a writes the low byte of each memory word from a
\* up to the first word that is 0, nothing for that word or a later one, and
\* leaves R0 and memory as they were; for the words 0x48, 0x49, 0 it writes
\* exactly "HI"
C13_PutsOutput ==
    [][StepsPuts =>
          /\ out' = out \o [x \in 1..Len(ZString(memory, reg[R_R0])) |->
                               ZString(memory, reg[R_R0])[x] % 256]
          /\ ZString(memory, reg[R_R0]) = <<72, 73>> => out' = out \o <<72, 73>>
          /\ reg'[R_R0] = reg[R_R0]
          /\ memory' = memory]_vars

(* ------------------------------------------------------------------ *)
(* C14                                                                 *)
(* ------------------------------------------------------------------ *)
\* the loop is entered and nothing is fetched yet
AtFirstFetch == pcl = "run" /\ steps = 0

\* C14: at the first instruction fetch, whatever images were loaded, R0..R7
\* are all 0, the flags are ZERO and the PC is 0x3000
C14_StartState ==
    AtFirstFetch =>
        /\ \A r \in R_R0..R_R7 : reg[r] = 0
        /\ reg[R_COND] = FL_ZRO
        /\ reg[R_PC] = PC_START

\* the first fetch after two images, one of them placed at 0xFFFE
C14_Witness ==
    /\ AtFirstFetch
    /\ Len(argv) = 2
    /\ Cell(memory, 65534) # 0
    /\ Cell(memory, PC_START) # 0

(* ------------------------------------------------------------------ *)
(* C15                                                                 *)
(* ------------------------------------------------------------------ *)
\* the two memory-mapped keyboard registers
KeyboardCells == {MR_KBSR, MR_KBDR}

\* C15: only a read of 0xFE00 polls the keyboard: an iteration without such
\* a read (and without the blocking getchar of GETC and IN) consumes no
\* keystroke; a read of 0xFE02 returns the data cell and consumes nothing; a
\* store (ST, STI, STR) to 0xFE00 or 0xFE02 consumes nothing and leaves the
\* source register's value in the addressed cell, as for any other address.
C15_OnlyStatusReadPolls ==
    [][Stepped =>
          /\ (ReadsAt(log', MR_KBSR) = {} /\ ~IsGetcOrIn(instr')) => kbd' = kbd
          /\ \A n \in ReadsAt(log', MR_KBDR) :
                (ReadsAt(log', MR_KBSR) = {}) =>
                    log'[n].v = Cell(memory, MR_KBDR) /\ kbd' = kbd
          /\ \A a \in KeyboardCells : \A n \in WritesAt(log', a) :
                /\ Opcode(instr') \in {OP_ST, OP_STI, OP_STR}
                /\ Cell(memory', a) = reg[DR(instr')]
                /\ \A b \in (DOMAIN memory \cup DOMAIN memory') \ {a} :
                      Cell(memory', b) = Cell(memory, b)
                /\ kbd' = kbd]_vars

\* a store to 0xFE00 made while a keystroke is pending
C15_Witness ==
    /\ Executed
    /\ Opcode(instr) = OP_STR
    /\ WritesAt(log, MR_KBSR) # {}
    /\ Cell(memory, MR_KBSR) = 65026
    /\ kbd # <<>>

(* ------------------------------------------------------------------ *)
(* C16                                                                 *)
(* ------------------------------------------------------------------ *)
\* this step is an iteration that runs JSRR (opcode JSR with bit 11 clear)
StepsJsrr == Stepped /\ Opcode(instr') = OP_JSR /\ BitAnd(Shr(instr', 11), 1) = 0

\* C16: after JSRR with any base register, R7 included, the PC is the value
\* the base register held before the instruction
C16_JsrrTarget ==
    [][StepsJsrr => reg'[R_PC] = reg[SR1(instr')]]_vars

(* ------------------------------------------------------------------ *)
(* C17                                                                 *)
(* ------------------------------------------------------------------ *)
\* the loop over argv is about to load a whole image that runs over the end
\* of the address space
LoadsOversized ==
    /\ pcl = "load"
    /\ j <= Len(argv)
    /\ ~Truncated(argv[j])
    /\ ~Fits(argv[j])

\* C17: an image of n words at origin o with o + n > 65536 is cut short in
\* silence: the load succeeds, no cell below o changes (nothing wraps to low
\* addresses), and each word that fits, up to address 0xFFFF, is stored at
\* its address o, o+1, ... in order
C17_OversizedImage ==
    [][LoadsOversized =>
          /\ j' = j + 1
          /\ pcl' = "load"
          /\ out' = out
          /\ \A a \in DOMAIN memory \cup DOMAIN memory' :
                (a < OriginOf(argv[j])) => Cell(memory', a) = Cell(memory, a)
          /\ \A w \in 1..WordCount(argv[j]) :
                (OriginOf(argv[j]) + w - 1 <= UINT16_MAX) =>
                    Load(memory', past', OriginOf(argv[j]) + w - 1) = WordOf(argv[j], w)]_vars

(* ------------------------------------------------------------------ *)
(* C18                                                                 *)
(* ------------------------------------------------------------------ *)
\* this step is an iteration that runs BR
StepsBr == Stepped /\ Opcode(instr') = OP_BR

\* the 3-bit condition mask of a BR, and its 9-bit offset as a signed number
BrMask(i) == (i \div 512) % 8

BrOffset(i) == IF i % 512 >= 256 THEN (i % 512) - 512 ELSE i % 512

\* the mask and the flags have a bit in common
BrTaken(i, flags) ==
    \E b \in {FL_POS, FL_ZRO, FL_NEG} : (BrMask(i) \div b) % 2 = 1 /\ (flags \div b) % 2 = 1

\* C18: a BR fetched from a sets the PC to (a + 1 + offset) mod 2^16 when its
\* mask and the flags share a bit, and to a + 1 otherwise; mask 0 never
\* branches and mask 7 always does; general registers, flags and memory are
\* left as they were (memory as the fetch left it)
C18_Branch ==
    [][StepsBr =>
          LET a == reg[R_PC]
              fall == (a + 1) % 65536
              target == (a + 1 + BrOffset(instr')) % 65536
          IN  /\ reg'[R_PC] = IF BrTaken(instr', reg[R_COND]) THEN target ELSE fall
              /\ BrMask(instr') = 0 => reg'[R_PC] = fall
              /\ BrMask(instr') = 7 => reg'[R_PC] = target
              /\ \A r \in R_R0..R_R7 : reg'[r] = reg[r]
              /\ reg'[R_COND] = reg[R_COND]
              /\ memory' = AfterFetch.memory
              /\ past' = past]_vars

\* BRnzp -3 at 0x3002 has gone back to 0x3000
C18_Witness ==
    /\ Executed
    /\ instr = 4093
    /\ FetchAddr = PC_START + 2
    /\ reg[R_PC] = PC_START

(* ------------------------------------------------------------------ *)
(* C19                                                                 *)
(* ------------------------------------------------------------------ *)
\* the low n bits of an instruction as a signed number
Signed(i, n) == IF i % 2^n >= 2^(n - 1) THEN (i % 2^n) - 2^n ELSE i % 2^n

\* the effective address of a PC-relative instruction i fetched from a
PcRelative(a, i) == (a + 1 + Signed(i, 9)) % 65536

\* this step is an iteration that runs ST, STI or STR
StepsStore == Stepped /\ Opcode(instr') \in {OP_ST, OP_STI, OP_STR}

\* the word a read of address e returns: the cell, or the status for 0xFE00
Pointer(e) ==
    IF e = MR_KBSR THEN (IF kbd = <<>> THEN 0 ELSE 32768) ELSE Cell(memory, e)

\* the address claimed for the store of instruction i fetched from a
StoreTarget(a, i) ==
    IF Opcode(i) = OP_ST THEN PcRelative(a, i)
    ELSE IF Opcode(i) = OP_STI THEN Pointer(PcRelative(a, i))
    ELSE (reg[SR1(i)] + Signed(i, 6)) % 65536

\* C19: ST, STI and STR each set one memory cell, the one at their effective
\* address, to the value of the source register, and change no other cell
\* (the keyboard cells apart, when STI reads its pointer from 0xFE00), no
\* general register and no flag
C19_StoreFrame ==
    [][StepsStore =>
          LET t == StoreTarget(reg[R_PC], instr')
              polled == Opcode(instr') = OP_STI /\ PcRelative(reg[R_PC], instr') = MR_KBSR
          IN  /\ Cell(memory', t) = reg[DR(instr')]
              /\ \A b \in (DOMAIN memory \cup DOMAIN memory') \ {t} :
                    (polled /\ b \in {MR_KBSR, MR_KBDR}) \/ Cell(memory', b) = Cell(memory, b)
              /\ \A r \in R_R0..R_R7 : reg'[r] = reg[r]
              /\ reg'[R_COND] = reg[R_COND]]_vars

(* ------------------------------------------------------------------ *)
(* C20                                                                 *)
(* ------------------------------------------------------------------ *)
\* this step is an iteration that runs LD, LDI or LEA
StepsLoad == Stepped /\ Opcode(instr') \in {OP_LD, OP_LDI, OP_LEA}

\* C20: for LD, LDI and LEA fetched from a, with e = (a + 1 + offset) mod
\* 2^16: LEA leaves e in DR and reads no memory besides the fetch, LD leaves
\* memory[e] in DR, LDI leaves memory[memory[e]] in DR, and the PC is a + 1
C20_LoadAddress ==
    [][StepsLoad =>
          LET e == PcRelative(reg[R_PC], instr')
              dr == reg'[DR(instr')]
          IN  /\ Opcode(instr') = OP_LEA => (dr = e /\ Len(log') = 1)
              /\ Opcode(instr') = OP_LD => dr = Cell(memory', e)
              /\ Opcode(instr') = OP_LDI => dr = Cell(memory', Cell(memory', e))
              /\ reg'[R_PC] = (reg[R_PC] + 1) % 65536]_vars

====
